---- MODULE Spec2Model ----
(***************************************************************************)
(* Model of airflow/providers/google/cloud/operators/kubernetes_engine.py: *)
(* GKECreateClusterOperator, GKEDeleteClusterOperator, GKEStartPodOperator *)
(* run as one task instance at a time against a GKE control plane.         *)
(*                                                                         *)
(* Python values are modelled as strings: PyNone is None, Absent is a key  *)
(* a dict does not have, "" / "0" / "[]" / "{}" are the falsy values of    *)
(* their types.  Operation names are positive integers (0: no operation).  *)
(***************************************************************************)
EXTENDS Integers, Sequences, FiniteSets, TLC

VARIABLES
    pc,          \* position of the task instance: idle, constructed, waiting, deferred,
                 \* done, failed
    kind,        \* which operator the task instance is: none, create, delete, pod
    attempts,    \* number of task instances started so far
    clusters,    \* control plane: names of the clusters that exist
    operations,  \* control plane: operations[n] is the operation named n
    createOp,    \* fields of the GKECreateClusterOperator instance
    deleteOp,    \* fields of the GKEDeleteClusterOperator instance
    podOp,       \* fields of the GKEStartPodOperator instance
    trace,       \* what this task instance did so far, in order
    returns,     \* values returned by execute / execute_complete of this task instance
    raised,      \* exceptions raised out of __init__ / execute / execute_complete
    deferrals,   \* deferrals registered by self.defer(...)
    submission,  \* how the control plane answered this task instance's submission
    event,       \* the completion event handed to execute_complete
    worker,      \* the instance execute_complete ran on: none, same, other
    syncPolls,   \* status polls the blocking wait of the hook has made without an end
    poller       \* the trigger of the deferral: its polls and the events it emitted

vars == <<pc, kind, attempts, clusters, operations, createOp, deleteOp, podOp,
          trace, returns, raised, deferrals, submission, event, worker, syncPolls, poller>>

----------------------------------------------------------------------------
(* Bounds *)

MaxAttempts == 2
MaxPolls == 3
MaxRetries == 1

----------------------------------------------------------------------------
(* Python values *)

PyNone == "<None>"
Absent == "<absent>"

Falsy == {PyNone, "", "0", "[]", "{}"}

Truthy(v) == v \notin Falsy

ClusterNames == {"c1", "c2"}
ProjectIds == {"p1"}
Locations == {"europe-west1"}
PollIntervals == {5, 10}
Messages == {"quota exceeded", "Operation is successfully ended."}

DefaultConnId == "google_cloud_default"
DefaultApiVersion == "v2"

\* A dict body may lack a key, hold None, or hold a falsy or a truthy value.
DictBodies ==
    [type : {"dict"},
     name : {Absent, PyNone, ""} \cup ClusterNames,
     node_config : {Absent, PyNone, "{}", "{machine_type}"},
     initial_node_count : {Absent, PyNone, "0", "1"},
     node_pools : {Absent, PyNone, "[]", "[pool]"}]

\* A Cluster proto has every field; an unset field holds its type's default.
ClusterBodies ==
    [type : {"Cluster"},
     name : {""} \cup ClusterNames,
     node_config : {"{}", "{machine_type}"},
     initial_node_count : {"0", "1"},
     node_pools : {"[]", "[pool]"}]

Bodies == DictBodies \cup ClusterBodies

NoBody ==
    [type |-> "dict", name |-> Absent, node_config |-> Absent,
     initial_node_count |-> Absent, node_pools |-> Absent]

----------------------------------------------------------------------------
(* Links, hooks, trace entries *)

ClusterLink(name) == [res |-> "clusters", op |-> 0, cluster |-> name]
OperationLink(n) == [res |-> "operations", op |-> n, cluster |-> ""]
NoneLink == [res |-> PyNone, op |-> 0, cluster |-> ""]

NoHook == [built |-> FALSE, gcp_conn_id |-> "", location |-> "", impersonation_chain |-> ""]

Ev(what, name, op, wait) == [ev |-> what, name |-> name, op |-> op, wait |-> wait]

NoSubmission == [called |-> FALSE, exc |-> "", op |-> 0, polled |-> FALSE]

Submitted(out) == [called |-> TRUE, exc |-> out.exc, op |-> out.op, polled |-> out.polled]

NoEvent == [status |-> "", message |-> "", operation_name |-> 0]

Exc(type, message) == [type |-> type, message |-> message]

InputError == Exc("AirflowException", "Operator has incorrect or missing input.")

\* What one run of __init__, execute or execute_complete did: the trace entries it
\* adds, and the value it returned, the exception it raised or the deferral it
\* registered (each a sequence of length at most one).
Did(steps, ret, exc, defer) ==
    [trace |-> steps, returns |-> ret, raised |-> exc, deferrals |-> defer]

Returned(link) == Ev("return", link.cluster, link.op, FALSE)
Raise == Ev("raise", "", 0, FALSE)
Deferred(n) == Ev("defer", "", n, FALSE)

----------------------------------------------------------------------------
(* The control plane behind GKEHook *)

\* The operation record named n, as get_operation and the submissions return it.
Operation(ops, n) ==
    [name |-> n,
     self_link |-> OperationLink(n),
     target_link |-> ClusterLink(ops[n].cluster)]

\* hook.create_cluster: AlreadyExists if the cluster exists; otherwise a new
\* operation, which with wait_to_complete is polled until it is done or has failed.
HookCreateCluster(cl, ops, name, wait) ==
    IF name \in cl
    THEN {[exc |-> "AlreadyExists", op |-> 0, polled |-> FALSE]}
    ELSE {[exc |-> "", op |-> Len(ops) + 1, polled |-> wait],
          [exc |-> "PermissionDenied", op |-> 0, polled |-> FALSE]}
         \cup (IF wait
                THEN {[exc |-> "GoogleCloudError", op |-> Len(ops) + 1, polled |-> TRUE]}
                ELSE {})

\* Errors with which the API may reject any call.
ApiErrors == {"AlreadyExists", "PermissionDenied"}

\* hook.delete_cluster: None if the cluster does not exist (NotFound is taken as
\* success); otherwise a new operation, polled with wait_to_complete.
HookDeleteCluster(cl, ops, name, wait) ==
    (IF name \notin cl
     THEN {[exc |-> "", op |-> 0, polled |-> FALSE]}
     ELSE {[exc |-> "", op |-> Len(ops) + 1, polled |-> wait]}
          \cup (IF wait
                 THEN {[exc |-> "GoogleCloudError", op |-> Len(ops) + 1, polled |-> TRUE]}
                 ELSE {}))
    \cup {[exc |-> e, op |-> 0, polled |-> FALSE] : e \in ApiErrors}

\* While the hook waits for the operation its call has not returned.
Pending == "<pending>"

\* How a call that waits for the operation ends: the operation is done, or it
\* has failed.
WaitOutcomes(op) ==
    {[exc |-> "", op |-> op, polled |-> TRUE],
     [exc |-> "GoogleCloudError", op |-> op, polled |-> TRUE]}

TimedOut(op) == [exc |-> "TimeoutError", op |-> op, polled |-> TRUE]

\* The wait of the hook gives up once the timeout of its caller has passed.
DeadlineReached(timeout, polls) == timeout # PyNone /\ polls >= timeout

\* The trigger: the number of its polls and of its retries, the time of its next
\* poll, the status it saw last, and the events it emitted.
NoPoller == [polls |-> 0, retries |-> 0, clock |-> 0, last |-> "", emitted |-> <<>>,
             resumes |-> 0]

PollStatuses == {"RUNNING", "DONE", "ABORTING", "UNAVAILABLE"}

\* A trigger that goes on polling after its event.
StoppedNever(p) == FALSE

\* The trigger returns after its event.
Stopped(p) == p.emitted # <<>>

\* A status ends the polling if the operation is done or has failed, or if the
\* lookup failed and the retries are used up.
Terminal(p, status) ==
    \/ status \in {"DONE", "ABORTING"}
    \/ status = "UNAVAILABLE" /\ p.retries >= MaxRetries

EventStatus(status) ==
    CASE status = "DONE" -> "success"
      [] status = "ABORTING" -> "failed"
      [] status = "UNAVAILABLE" -> "error"

\* One poll of the trigger that observes `status` and, if it is terminal, emits ev.
Polled(p, interval, status, ev) ==
    LET seen == [p EXCEPT !.polls = @ + 1, !.last = status]
    IN  IF Terminal(p, status)
        THEN [seen EXCEPT !.emitted = Append(@, ev)]
        ELSE [seen EXCEPT !.clock = @ + interval,
                          !.retries = IF status = "UNAVAILABLE" THEN @ + 1 ELSE @]

\* hook.get_operation: the record of a known operation.
KnownOperation(ops, n) == n \in 1..Len(ops)

\* GKEOperationTrigger.run: the one event the trigger of deferral d ends with.
\* A success event carries the operation's name; a failure event may lack it.
TriggerEvents(d) ==
    {[status |-> "success", message |-> m, operation_name |-> d.trigger.operation_name] :
        m \in Messages}
    \cup {[status |-> s, message |-> m, operation_name |-> n] :
            s \in {"failed", "error"}, m \in Messages, n \in {0, d.trigger.operation_name}}

\* hook.get_cluster: the connection data of an existing cluster.  Cluster c2 has
\* no private endpoint.
Endpoint(name) == IF name = "c1" THEN "34.0.0.1" ELSE "34.0.0.2"
PrivateEndpoint(name) == IF name = "c1" THEN "10.0.0.1" ELSE ""
CaCertificate(name) == IF name = "c1" THEN "CA-c1" ELSE "CA-c2"

GetCluster(name) ==
    [endpoint |-> Endpoint(name),
     private_endpoint |-> PrivateEndpoint(name),
     cluster_ca_certificate |-> CaCertificate(name)]

\* f"https://{host}"
HttpsUrl(host) ==
    CASE host = "34.0.0.1" -> "https://34.0.0.1"
      [] host = "34.0.0.2" -> "https://34.0.0.2"
      [] host = "10.0.0.1" -> "https://10.0.0.1"
      [] host = "" -> "https://"

\* GKEStartPodTrigger.run: the one event the pod trigger ends with.
PodTriggerEvents ==
    [status : {"success", "failed", "error", "timeout"}, message : Messages,
     operation_name : {0}]

\* The triggerer resumes a deferred task once, with the event of its trigger.
Resumable == pc = "deferred" /\ Len(deferrals) = 1

----------------------------------------------------------------------------
(* GKECreateClusterOperator *)

NoCreateOp ==
    [project_id |-> PyNone, gcp_conn_id |-> "", location |-> "", api_version |-> "",
     body |-> NoBody, impersonation_chain |-> PyNone, poll_interval |-> 0,
     deferrable |-> FALSE, _hook |-> NoHook]

\* _body_field that reads the attribute only and so finds nothing in a dict.
_body_field_attribute_only(body, field_name) ==
    IF body.type = "dict" THEN PyNone ELSE body[field_name]

_body_field(body, field_name) ==
    IF body.type = "dict"
    THEN (IF body[field_name] = Absent THEN PyNone ELSE body[field_name])
    ELSE body[field_name]

\* _validate_input without the checks of node_pools against the legacy fields.
_validate_input_unpaired(body) ==
    LET anyLegacy == Truthy(_body_field(body, "node_config"))
                     \/ Truthy(_body_field(body, "initial_node_count"))
    IN  (IF ~Truthy(_body_field(body, "name"))
         THEN <<"Field body['name'] is missing or incorrect">> ELSE <<>>)
        \o (IF ~anyLegacy /\ ~Truthy(_body_field(body, "node_pools"))
            THEN <<"Field body['node_pools'] is required if none of fields body['initial_node_count'] or body['node_pools'] are specified.">>
            ELSE <<>>)

\* _validate_input without the check that one of the three fields is given.
_validate_input_optional(body) ==
    LET anyLegacy == Truthy(_body_field(body, "node_config"))
                     \/ Truthy(_body_field(body, "initial_node_count"))
        node_pools == _body_field(body, "node_pools")
    IN  (IF ~Truthy(_body_field(body, "name"))
         THEN <<"Field body['name'] is missing or incorrect">> ELSE <<>>)
        \o (IF Truthy(node_pools) /\ anyLegacy
            THEN <<"The field body['node_pools'] should not be set if body['node_config'] or body['initial_code_count'] are specified.">>
            ELSE <<>>)

\* The error_messages list _validate_input builds.
_validate_input(body) ==
    LET name == _body_field(body, "name")
        node_config == _body_field(body, "node_config")
        initial_node_count == _body_field(body, "initial_node_count")
        node_pools == _body_field(body, "node_pools")
        anyLegacy == Truthy(node_config) \/ Truthy(initial_node_count)
    IN  (IF ~Truthy(name)
         THEN <<"Field body['name'] is missing or incorrect">> ELSE <<>>)
        \o (IF Truthy(initial_node_count) /\ Truthy(node_pools)
            THEN <<"Do not use filed body['initial_node_count'] and body['node_pools'] at the same time.">>
            ELSE <<>>)
        \o (IF Truthy(node_config) /\ Truthy(node_pools)
            THEN <<"Do not use filed body['node_config'] and body['node_pools'] at the same time.">>
            ELSE <<>>)
        \o (IF Truthy(node_pools) /\ anyLegacy
            THEN <<"The field body['node_pools'] should not be set if body['node_config'] or body['initial_code_count'] are specified.">>
            ELSE <<>>)
        \o (IF ~anyLegacy /\ ~Truthy(node_pools)
            THEN <<"Field body['node_pools'] is required if none of fields body['initial_node_count'] or body['node_pools'] are specified.">>
            ELSE <<>>)

\* __init__ that logs the error messages and does not raise.
CreateInitDidLogOnly(body) == Did(<<Ev("validated", "", 0, FALSE)>>, <<>>, <<>>, <<>>)

\* __init__: the fields are assigned, then _validate_input raises if it found errors.
CreateInitDid(body) ==
    IF _validate_input(body) # <<>>
    THEN Did(<<Raise>>, <<>>, <<InputError>>, <<>>)
    ELSE Did(<<Ev("validated", "", 0, FALSE)>>, <<>>, <<>>, <<>>)

_get_hook(self) ==
    IF self._hook.built
    THEN self._hook
    ELSE [built |-> TRUE, gcp_conn_id |-> self.gcp_conn_id, location |-> self.location,
          impersonation_chain |-> self.impersonation_chain]

\* wait_to_complete = True whatever the mode.
WaitAlways(self) == TRUE

WaitToComplete(self) == ~self.deferrable

\* The timeout execute hands to create_cluster / delete_cluster: it passes none.
SubmissionTimeout(self) == PyNone

\* The name the hook submits: the body's name field.
SubmittedName(body) == _body_field(body, "name")

\* The trigger built without poll_interval, which is then the trigger's default.
GKEOperationTriggerDefaultInterval(self, operation) ==
    [cls |-> "GKEOperationTrigger",
     operation_name |-> operation.name,
     project_id |-> self.project_id,
     location |-> self.location,
     gcp_conn_id |-> self.gcp_conn_id,
     impersonation_chain |-> self.impersonation_chain,
     poll_interval |-> 10]

GKEOperationTrigger(self, operation) ==
    [cls |-> "GKEOperationTrigger",
     operation_name |-> operation.name,
     project_id |-> self.project_id,
     location |-> self.location,
     gcp_conn_id |-> self.gcp_conn_id,
     impersonation_chain |-> self.impersonation_chain,
     poll_interval |-> self.poll_interval]

Defer(trigger, method_name, kwargs) ==
    [trigger |-> trigger, method_name |-> method_name, kwargs |-> kwargs]

NoKwargs == [cluster_url |-> Absent, ssl_ca_cert |-> Absent]

\* except NotFound in place of except AlreadyExists.
CaughtNotFound(exc) == exc = "NotFound"

\* except AlreadyExists: the errors of the submission that execute handles.
Caught(exc) == exc = "AlreadyExists"

\* if self.deferrable: whether execute defers after a submission.
CreateDefers(self) == self.deferrable

\* The except-branch of execute: the name looked up after AlreadyExists.
AlreadyExistsName(body) ==
    IF body.type = "Cluster" THEN body.name ELSE body["name"]

\* execute, given the outcome `out` of hook.create_cluster and the operations
\* `ops` of the control plane after the submission.
CreateExecuteDid(self, ops, out) ==
    LET submit == Ev("create_cluster", SubmittedName(self.body), 0, WaitToComplete(self))
        polled == IF out.polled THEN <<Ev("wait_for_operation", "", out.op, TRUE)>> ELSE <<>>
    IN  IF Caught(out.exc)
        THEN LET name == AlreadyExistsName(self.body)
             IN  IF name = Absent
                 THEN Did(<<submit, Raise>>, <<>>, <<Exc("KeyError", "name")>>, <<>>)
                 ELSE Did(<<submit, Ev("get_cluster", name, 0, FALSE),
                            Returned(ClusterLink(name))>>,
                          <<ClusterLink(name)>>, <<>>, <<>>)
        ELSE IF out.exc # ""
        THEN Did(<<submit>> \o polled \o <<Raise>>, <<>>, <<Exc(out.exc, "")>>, <<>>)
        ELSE LET operation == Operation(ops, out.op)
             IN  IF CreateDefers(self)
                 THEN Did(<<submit>> \o polled \o <<Deferred(operation.name)>>, <<>>, <<>>,
                          <<Defer(GKEOperationTrigger(self, operation),
                                  "execute_complete", NoKwargs)>>)
                 ELSE Did(<<submit>> \o polled \o <<Returned(operation.target_link)>>,
                          <<operation.target_link>>, <<>>, <<>>)

\* if status == "failed": the status "error" forgotten.
FailedStatusOnly(status) == status = "failed"

\* self._hook read directly, as execute left it.
ResumeHookStored(self) == self._hook

\* self._get_hook() in execute_complete: the hook the lookup goes through.
ResumeHook(self) == _get_hook(self)

\* Which statuses of the event make execute_complete raise.
FailedStatus(status) == status \in {"failed", "error"}

\* execute_complete returning the operation's own link.
CreateExecuteCompleteDidSelfLink(self, ops, ev) ==
    IF ev.status \in {"failed", "error"}
    THEN Did(<<Raise>>, <<>>, <<Exc("AirflowException", ev.message)>>, <<>>)
    ELSE Did(<<Ev("get_operation", "", ev.operation_name, FALSE),
               Returned(OperationLink(ev.operation_name))>>,
             <<OperationLink(ev.operation_name)>>, <<>>, <<>>)

\* execute_complete of the create operator.
CreateExecuteCompleteDid(self, ops, ev) ==
    IF FailedStatus(ev.status)
    THEN Did(<<Raise>>, <<>>, <<Exc("AirflowException", ev.message)>>, <<>>)
    ELSE IF ~ResumeHook(self).built
    THEN Did(<<Raise>>, <<>>, <<Exc("AttributeError", "get_operation")>>, <<>>)
    ELSE LET lookup == Ev("get_operation", "", ev.operation_name, FALSE)
         IN  IF ~KnownOperation(ops, ev.operation_name)
             THEN Did(<<lookup, Raise>>, <<>>, <<Exc("NotFound", "")>>, <<>>)
             ELSE LET operation == Operation(ops, ev.operation_name)
                  IN  Did(<<lookup, Returned(operation.target_link)>>,
                          <<operation.target_link>>, <<>>, <<>>)

----------------------------------------------------------------------------
(* GKEDeleteClusterOperator *)

NoDeleteOp ==
    [project_id |-> PyNone, gcp_conn_id |-> "", location |-> "", api_version |-> "",
     name |-> "", impersonation_chain |-> PyNone, deferrable |-> FALSE,
     poll_interval |-> 0, _hook |-> NoHook]

\* _check_input that accepts a missing project_id.
_check_input_any_project(self) == Truthy(self.name) /\ Truthy(self.location)

_check_input(self) ==
    Truthy(self.project_id) /\ Truthy(self.name) /\ Truthy(self.location)

DeleteInitDid(self) ==
    IF ~_check_input(self)
    THEN Did(<<Raise>>, <<>>, <<InputError>>, <<>>)
    ELSE Did(<<Ev("validated", "", 0, FALSE)>>, <<>>, <<>>, <<>>)

\* if operation is not None: the mode forgotten.
DeleteDefersInAnyMode(self, op) == op # 0

\* if self.deferrable and operation is not None (op is 0 for None)
DeleteDefers(self, op) == self.deferrable /\ op # 0

\* execute with the create operator's except AlreadyExists branch copied in.
DeleteExecuteDidCatching(self, ops, out) ==
    LET submit == Ev("delete_cluster", self.name, 0, ~self.deferrable)
    IN  IF out.exc = "AlreadyExists"
        THEN Did(<<submit, Ev("get_cluster", self.name, 0, FALSE),
                   Returned(ClusterLink(self.name))>>,
                 <<ClusterLink(self.name)>>, <<>>, <<>>)
        ELSE IF out.exc # ""
        THEN Did(<<submit, Raise>>, <<>>, <<Exc(out.exc, "")>>, <<>>)
        ELSE IF out.op = 0
        THEN Did(<<submit, Returned(NoneLink)>>, <<NoneLink>>, <<>>, <<>>)
        ELSE IF self.deferrable
        THEN Did(<<submit, Deferred(out.op)>>, <<>>, <<>>,
                 <<Defer([cls |-> "GKEOperationTrigger", operation_name |-> out.op,
                          project_id |-> self.project_id, location |-> self.location,
                          gcp_conn_id |-> self.gcp_conn_id,
                          impersonation_chain |-> self.impersonation_chain,
                          poll_interval |-> self.poll_interval],
                         "execute_complete",
                         [cluster_url |-> Absent, ssl_ca_cert |-> Absent])>>)
        ELSE Did(<<submit, Ev("wait_for_operation", "", out.op, TRUE),
                   Returned(OperationLink(out.op))>>,
                 <<OperationLink(out.op)>>, <<>>, <<>>)

\* execute that reads operation.self_link without the test for None.
DeleteExecuteDidSelfLinkOfNone(self, ops, out) ==
    LET submit == Ev("delete_cluster", self.name, 0, WaitToComplete(self))
        polled == IF out.polled THEN <<Ev("wait_for_operation", "", out.op, TRUE)>> ELSE <<>>
    IN  IF out.exc # ""
        THEN Did(<<submit>> \o polled \o <<Raise>>, <<>>, <<Exc(out.exc, "")>>, <<>>)
        ELSE IF out.op = 0
        THEN Did(<<submit, Raise>>, <<>>, <<Exc("AttributeError", "")>>, <<>>)
        ELSE IF self.deferrable
        THEN LET operation == Operation(ops, out.op)
             IN  Did(<<submit>> \o polled \o <<Deferred(operation.name)>>, <<>>, <<>>,
                     <<Defer(GKEOperationTrigger(self, operation),
                             "execute_complete", NoKwargs)>>)
        ELSE LET operation == Operation(ops, out.op)
             IN  Did(<<submit>> \o polled \o <<Returned(operation.self_link)>>,
                     <<operation.self_link>>, <<>>, <<>>)

\* execute, given the outcome `out` of hook.delete_cluster.
DeleteExecuteDid(self, ops, out) ==
    LET submit == Ev("delete_cluster", self.name, 0, WaitToComplete(self))
        polled == IF out.polled THEN <<Ev("wait_for_operation", "", out.op, TRUE)>> ELSE <<>>
    IN  IF out.exc # ""
        THEN Did(<<submit>> \o polled \o <<Raise>>, <<>>, <<Exc(out.exc, "")>>, <<>>)
        ELSE IF DeleteDefers(self, out.op)
        THEN LET operation == Operation(ops, out.op)
             IN  Did(<<submit>> \o polled \o <<Deferred(operation.name)>>, <<>>, <<>>,
                     <<Defer(GKEOperationTrigger(self, operation),
                             "execute_complete", NoKwargs)>>)
        ELSE IF out.op = 0
        THEN Did(<<submit, Returned(NoneLink)>>, <<NoneLink>>, <<>>, <<>>)
        ELSE LET operation == Operation(ops, out.op)
             IN  Did(<<submit>> \o polled \o <<Returned(operation.self_link)>>,
                     <<operation.self_link>>, <<>>, <<>>)

\* execute_complete of the delete operator.
DeleteExecuteCompleteDid(self, ops, ev) ==
    IF FailedStatus(ev.status)
    THEN Did(<<Raise>>, <<>>, <<Exc("AirflowException", ev.message)>>, <<>>)
    ELSE IF ~ResumeHook(self).built
    THEN Did(<<Raise>>, <<>>, <<Exc("AttributeError", "get_operation")>>, <<>>)
    ELSE LET lookup == Ev("get_operation", "", ev.operation_name, FALSE)
         IN  IF ~KnownOperation(ops, ev.operation_name)
             THEN Did(<<lookup, Raise>>, <<>>, <<Exc("NotFound", "")>>, <<>>)
             ELSE LET operation == Operation(ops, ev.operation_name)
                  IN  Did(<<lookup, Returned(operation.self_link)>>,
                          <<operation.self_link>>, <<>>, <<>>)

----------------------------------------------------------------------------
(* GKEStartPodOperator *)

NoPodHook == [built |-> FALSE, cluster_url |-> PyNone, ssl_ca_cert |-> PyNone]

NoPodOp ==
    [project_id |-> PyNone, location |-> "", cluster_name |-> "", gcp_conn_id |-> "",
     impersonation_chain |-> PyNone, use_internal_ip |-> FALSE, deferrable |-> FALSE,
     config_file |-> PyNone, on_finish_action |-> PyNone,
     init_args |-> [on_finish_action |-> PyNone, is_delete_operator_pod |-> PyNone],
     _cluster_url |-> PyNone, _ssl_ca_cert |-> PyNone, hook |-> NoPodHook]

OnFinishActions == {"delete_pod", "keep_pod", "delete_succeeded_pod"}

\* kwargs["on_finish_action"] as __init__ resolves it; "ValueError" if the enum
\* OnFinishAction rejects the supplied string.
ResolveOnFinishAction(on_finish_action, is_delete_operator_pod) ==
    IF is_delete_operator_pod # PyNone
    THEN (IF is_delete_operator_pod = "True" THEN "delete_pod" ELSE "keep_pod")
    ELSE IF on_finish_action # PyNone
    THEN (IF on_finish_action \in OnFinishActions THEN on_finish_action ELSE "ValueError")
    ELSE "keep_pod"

\* __init__ without the check of config_file.
PodInitDidAnyConfigFile(self) ==
    IF self.on_finish_action = "ValueError"
    THEN Did(<<Raise>>, <<>>, <<Exc("ValueError", "")>>, <<>>)
    ELSE IF self.gcp_conn_id = PyNone
    THEN Did(<<Raise>>, <<>>,
             <<Exc("AirflowException", "The gcp_conn_id parameter has become required.")>>, <<>>)
    ELSE Did(<<Ev("validated", "", 0, FALSE)>>, <<>>, <<>>, <<>>)

\* __init__ of the pod operator.
PodInitDid(self) ==
    IF self.on_finish_action = "ValueError"
    THEN Did(<<Raise>>, <<>>, <<Exc("ValueError", "")>>, <<>>)
    ELSE IF self.gcp_conn_id = PyNone
    THEN Did(<<Raise>>, <<>>,
             <<Exc("AirflowException", "The gcp_conn_id parameter has become required.")>>, <<>>)
    ELSE IF Truthy(self.config_file)
    THEN Did(<<Raise>>, <<>>,
             <<Exc("AirflowException",
                   "config_file is not an allowed parameter for the GKEStartPodOperator.")>>,
             <<>>)
    ELSE Did(<<Ev("validated", "", 0, FALSE)>>, <<>>, <<>>, <<>>)

\* The property hook without its test of _cluster_url and _ssl_ca_cert.
HookDefinedAlways(self) == TRUE

\* The cached property hook: can it be built, and what it is once used.
HookDefined(self) ==
    self.hook.built \/ (self._cluster_url # PyNone /\ self._ssl_ca_cert # PyNone)

UseHook(self) ==
    IF self.hook.built
    THEN self
    ELSE [self EXCEPT !.hook = [built |-> TRUE, cluster_url |-> self._cluster_url,
                                ssl_ca_cert |-> self._ssl_ca_cert]]

\* fetch_cluster_info that always takes the public endpoint.
fetch_cluster_info_public(self, cluster) ==
    [self EXCEPT
        !._cluster_url = HttpsUrl(cluster.endpoint),
        !._ssl_ca_cert = cluster.cluster_ca_certificate]

\* return self._cluster_url, self._ssl_ca_cert
fetch_cluster_info_return(self) == <<self._cluster_url, self._ssl_ca_cert>>

\* fetch_cluster_info, given the cluster get_cluster returned.
fetch_cluster_info(self, cluster) ==
    [self EXCEPT
        !._cluster_url = IF ~self.use_internal_ip
                         THEN HttpsUrl(cluster.endpoint)
                         ELSE HttpsUrl(cluster.private_endpoint),
        !._ssl_ca_cert = cluster.cluster_ca_certificate]

GKEStartPodTrigger(self) ==
    [cls |-> "GKEStartPodTrigger",
     cluster_url |-> self._cluster_url,
     ssl_ca_cert |-> self._ssl_ca_cert,
     on_finish_action |-> self.on_finish_action,
     gcp_conn_id |-> self.gcp_conn_id,
     impersonation_chain |-> self.impersonation_chain]

\* self.defer(...) without the kwargs argument.
invoke_defer_method_no_kwargs(self) ==
    [trigger |-> [cls |-> "GKEStartPodTrigger",
                  cluster_url |-> self._cluster_url,
                  ssl_ca_cert |-> self._ssl_ca_cert,
                  on_finish_action |-> self.on_finish_action,
                  gcp_conn_id |-> self.gcp_conn_id,
                  impersonation_chain |-> self.impersonation_chain],
     method_name |-> "execute_complete",
     kwargs |-> [cluster_url |-> Absent, ssl_ca_cert |-> Absent]]

invoke_defer_method(self) ==
    Defer(GKEStartPodTrigger(self), "execute_complete",
          [cluster_url |-> self._cluster_url, ssl_ca_cert |-> self._ssl_ca_cert])

PodResult == [res |-> "xcom", op |-> 0, cluster |-> ""]

\* KubernetesPodOperator.execute: the pod is created through self.hook; a
\* deferrable operator then defers, another one waits for the pod, which
\* succeeds or fails.
KubernetesPodOperatorExecute(self, podOk) ==
    IF ~HookDefined(self)
    THEN Did(<<Raise>>, <<>>, <<Exc("AttributeError", "")>>, <<>>)
    ELSE LET create == Ev("create_pod", UseHook(self).hook.cluster_url, 0, FALSE)
         IN  IF self.deferrable
             THEN Did(<<create, Deferred(0)>>, <<>>, <<>>, <<invoke_defer_method(self)>>)
             ELSE IF podOk
             THEN Did(<<create, Returned(PodResult)>>, <<PodResult>>, <<>>, <<>>)
             ELSE Did(<<create, Raise>>, <<>>, <<Exc("AirflowException", "Pod failed")>>, <<>>)

\* KubernetesPodOperator.execute_complete: the pod is read through self.hook; the
\* task succeeds on a success event and fails on any other.
KubernetesPodOperatorExecuteComplete(self, ev) ==
    IF ~HookDefined(self)
    THEN Did(<<Raise>>, <<>>, <<Exc("AttributeError", "")>>, <<>>)
    ELSE LET read == Ev("read_pod", UseHook(self).hook.cluster_url, 0, FALSE)
         IN  IF ev.status = "success"
             THEN Did(<<read, Returned(PodResult)>>, <<PodResult>>, <<>>, <<>>)
             ELSE Did(<<read, Raise>>, <<>>, <<Exc("AirflowException", ev.message)>>, <<>>)

\* execute: fetch_cluster_info, then the base class's execute.
PodExecuteSelf(self, exists) ==
    IF exists THEN UseHook(fetch_cluster_info(self, GetCluster(self.cluster_name))) ELSE self

PodExecuteDid(self, exists, podOk) ==
    LET lookup == Ev("get_cluster", self.cluster_name, 0, FALSE)
    IN  IF ~exists
        THEN Did(<<lookup, Raise>>, <<>>, <<Exc("NotFound", "")>>, <<>>)
        ELSE LET super == KubernetesPodOperatorExecute(
                              fetch_cluster_info(self, GetCluster(self.cluster_name)), podOk)
             IN  [super EXCEPT !.trace = <<lookup>> \o @]

\* execute_complete: the connection data is taken from the resume kwargs, then
\* the base class's execute_complete runs.
PodExecuteCompleteSelf(self, kwargs) ==
    [self EXCEPT !._cluster_url = kwargs.cluster_url, !._ssl_ca_cert = kwargs.ssl_ca_cert]

PodExecuteCompleteDid(self, ev, kwargs) ==
    IF kwargs.cluster_url = Absent \/ kwargs.ssl_ca_cert = Absent
    THEN Did(<<Raise>>, <<>>, <<Exc("KeyError", "cluster_url")>>, <<>>)
    ELSE KubernetesPodOperatorExecuteComplete(PodExecuteCompleteSelf(self, kwargs), ev)

----------------------------------------------------------------------------
(* The task instance *)

\* Where the task instance is after a run of a method that did `d`.
After(d) ==
    IF d.raised # <<>> THEN "failed"
    ELSE IF d.deferrals # <<>> THEN "deferred"
    ELSE IF d.returns # <<>> THEN "done"
    ELSE "constructed"

Apply(d) ==
    /\ pc' = After(d)
    /\ trace' = trace \o d.trace
    /\ returns' = returns \o d.returns
    /\ raised' = raised \o d.raised
    /\ deferrals' = deferrals \o d.deferrals

Init ==
    /\ pc = "idle"
    /\ kind = "none"
    /\ attempts = 1
    /\ clusters \in SUBSET ClusterNames
    /\ operations = <<>>
    /\ createOp = NoCreateOp
    /\ deleteOp = NoDeleteOp
    /\ podOp = NoPodOp
    /\ trace = <<>>
    /\ returns = <<>>
    /\ raised = <<>>
    /\ deferrals = <<>>
    /\ submission = NoSubmission
    /\ event = NoEvent
    /\ worker = "none"
    /\ syncPolls = 0
    /\ poller = NoPoller

CreateInit ==
    /\ pc = "idle"
    /\ \E body \in Bodies, project_id \in {PyNone} \cup ProjectIds,
          location \in Locations, poll_interval \in PollIntervals,
          deferrable \in BOOLEAN :
          /\ createOp' = [project_id |-> project_id, gcp_conn_id |-> DefaultConnId,
                          location |-> location, api_version |-> DefaultApiVersion,
                          body |-> body, impersonation_chain |-> PyNone,
                          poll_interval |-> poll_interval, deferrable |-> deferrable,
                          _hook |-> NoHook]
          /\ Apply(CreateInitDid(body))
    /\ kind' = "create"
    /\ UNCHANGED <<attempts, clusters, operations, deleteOp, podOp, submission, event, worker, syncPolls, poller>>

CreateExecute ==
    /\ pc = "constructed"
    /\ kind = "create"
    /\ LET self == [createOp EXCEPT !._hook = _get_hook(createOp)]
           name == SubmittedName(self.body)
       IN  \E out \in HookCreateCluster(clusters, operations, name, WaitToComplete(self)) :
               LET ops == IF out.op # 0
                          THEN Append(operations, [kind |-> "create", cluster |-> name])
                          ELSE operations
               IN  /\ createOp' = self
                   /\ operations' = ops
                   /\ clusters' = IF out.op # 0 THEN clusters \cup {name} ELSE clusters
                   /\ IF out.polled
                      THEN /\ submission' = Submitted([out EXCEPT !.exc = Pending])
                           /\ pc' = "waiting"
                           /\ trace' = trace \o SubSeq(CreateExecuteDid(self, ops, out).trace, 1, 2)
                           /\ UNCHANGED <<returns, raised, deferrals>>
                      ELSE /\ submission' = Submitted(out)
                           /\ Apply(CreateExecuteDid(self, ops, out))
    /\ UNCHANGED <<kind, attempts, deleteOp, podOp, event, worker, syncPolls, poller>>

\* The resumed task runs execute_complete either on the instance that deferred
\* or, on another worker, on a newly constructed one.
CreateResume(ev, fresh) ==
    LET self == IF fresh THEN [createOp EXCEPT !._hook = NoHook] ELSE createOp
        did == CreateExecuteCompleteDid(self, operations, ev)
    IN  /\ event' = ev
        /\ worker' = IF fresh THEN "other" ELSE "same"
        /\ createOp' = IF FailedStatus(ev.status)
                       THEN self
                       ELSE [self EXCEPT !._hook = ResumeHook(self)]
        /\ Apply(did)

CreateExecuteComplete ==
    /\ Resumable
    /\ kind = "create"
    /\ \E ev \in TriggerEvents(deferrals[1]), fresh \in BOOLEAN : CreateResume(ev, fresh)
    /\ UNCHANGED <<kind, attempts, clusters, operations, deleteOp, podOp, submission, syncPolls, poller>>

\* The resume of a task whose trigger was followed poll by poll: it gets the
\* event that the trigger emitted.
CreateExecuteCompletePolled ==
    /\ Resumable
    /\ kind = "create"
    /\ poller.emitted # <<>>
    /\ poller' = [poller EXCEPT !.resumes = @ + 1]
    /\ \E fresh \in BOOLEAN : CreateResume(poller.emitted[1], fresh)
    /\ UNCHANGED <<kind, attempts, clusters, operations, deleteOp, podOp, submission, syncPolls>>

DeleteInit ==
    /\ pc = "idle"
    /\ \E name \in {""} \cup ClusterNames, location \in {""} \cup Locations,
          project_id \in {PyNone, ""} \cup ProjectIds,
          poll_interval \in PollIntervals, deferrable \in BOOLEAN :
          LET self == [project_id |-> project_id, gcp_conn_id |-> DefaultConnId,
                       location |-> location, api_version |-> DefaultApiVersion,
                       name |-> name, impersonation_chain |-> PyNone,
                       deferrable |-> deferrable, poll_interval |-> poll_interval,
                       _hook |-> NoHook]
          IN  /\ deleteOp' = self
              /\ Apply(DeleteInitDid(self))
    /\ kind' = "delete"
    /\ UNCHANGED <<attempts, clusters, operations, createOp, podOp, submission, event, worker, syncPolls, poller>>

DeleteExecute ==
    /\ pc = "constructed"
    /\ kind = "delete"
    /\ LET self == [deleteOp EXCEPT !._hook = _get_hook(deleteOp)]
       IN  \E out \in HookDeleteCluster(clusters, operations, self.name, WaitToComplete(self)) :
               LET ops == IF out.op # 0
                          THEN Append(operations, [kind |-> "delete", cluster |-> self.name])
                          ELSE operations
               IN  /\ deleteOp' = self
                   /\ operations' = ops
                   /\ clusters' = IF out.op # 0 THEN clusters \ {self.name} ELSE clusters
                   /\ IF out.polled
                      THEN /\ submission' = Submitted([out EXCEPT !.exc = Pending])
                           /\ pc' = "waiting"
                           /\ trace' = trace \o SubSeq(DeleteExecuteDid(self, ops, out).trace, 1, 2)
                           /\ UNCHANGED <<returns, raised, deferrals>>
                      ELSE /\ submission' = Submitted(out)
                           /\ Apply(DeleteExecuteDid(self, ops, out))
    /\ UNCHANGED <<kind, attempts, createOp, podOp, event, worker, syncPolls, poller>>

DeleteResume(ev, fresh) ==
    LET self == IF fresh THEN [deleteOp EXCEPT !._hook = NoHook] ELSE deleteOp
        did == DeleteExecuteCompleteDid(self, operations, ev)
    IN  /\ event' = ev
        /\ worker' = IF fresh THEN "other" ELSE "same"
        /\ deleteOp' = IF FailedStatus(ev.status)
                       THEN self
                       ELSE [self EXCEPT !._hook = ResumeHook(self)]
        /\ Apply(did)

DeleteExecuteComplete ==
    /\ Resumable
    /\ kind = "delete"
    /\ \E ev \in TriggerEvents(deferrals[1]), fresh \in BOOLEAN : DeleteResume(ev, fresh)
    /\ UNCHANGED <<kind, attempts, clusters, operations, createOp, podOp, submission, syncPolls, poller>>

\* The resume of a task whose trigger was followed poll by poll: it gets the
\* event that the trigger emitted.
DeleteExecuteCompletePolled ==
    /\ Resumable
    /\ kind = "delete"
    /\ poller.emitted # <<>>
    /\ poller' = [poller EXCEPT !.resumes = @ + 1]
    /\ \E fresh \in BOOLEAN : DeleteResume(poller.emitted[1], fresh)
    /\ UNCHANGED <<kind, attempts, clusters, operations, createOp, podOp, submission, syncPolls>>

PodInit ==
    /\ pc = "idle"
    /\ \E cluster_name \in ClusterNames, use_internal_ip \in BOOLEAN,
          deferrable \in BOOLEAN, gcp_conn_id \in {DefaultConnId, PyNone},
          config_file \in {PyNone, "", "/home/airflow/.kube/config"},
          on_finish_action \in {PyNone, "sleep"} \cup OnFinishActions,
          is_delete_operator_pod \in {PyNone, "True", "False"} :
          LET self == [NoPodOp EXCEPT
                          !.project_id = "p1",
                          !.location = "europe-west1",
                          !.cluster_name = cluster_name,
                          !.gcp_conn_id = gcp_conn_id,
                          !.use_internal_ip = use_internal_ip,
                          !.deferrable = deferrable,
                          !.config_file = config_file,
                          !.on_finish_action =
                              ResolveOnFinishAction(on_finish_action, is_delete_operator_pod),
                          !.init_args =
                              [on_finish_action |-> on_finish_action,
                               is_delete_operator_pod |-> is_delete_operator_pod]]
          IN  /\ podOp' = self
              /\ Apply(PodInitDid(self))
    /\ kind' = "pod"
    /\ UNCHANGED <<attempts, clusters, operations, createOp, deleteOp, submission, event, worker, syncPolls, poller>>

PodExecute ==
    /\ pc = "constructed"
    /\ kind = "pod"
    /\ \E podOk \in BOOLEAN :
          LET exists == podOp.cluster_name \in clusters
          IN  /\ podOp' = PodExecuteSelf(podOp, exists)
              /\ Apply(PodExecuteDid(podOp, exists, podOk))
    /\ UNCHANGED <<kind, attempts, clusters, operations, createOp, deleteOp, submission, event, worker, syncPolls, poller>>

PodExecuteComplete ==
    /\ Resumable
    /\ kind = "pod"
    /\ \E ev \in PodTriggerEvents, fresh \in BOOLEAN :
          LET self == IF fresh
                      THEN [podOp EXCEPT !._cluster_url = PyNone, !._ssl_ca_cert = PyNone,
                                         !.hook = NoPodHook]
                      ELSE podOp
              kwargs == deferrals[1].kwargs
          IN  /\ event' = ev
              /\ worker' = IF fresh THEN "other" ELSE "same"
              /\ podOp' = IF kwargs.cluster_url = Absent \/ kwargs.ssl_ca_cert = Absent
                          THEN self
                          ELSE LET resumed == PodExecuteCompleteSelf(self, kwargs)
                               IN  IF HookDefined(resumed) THEN UseHook(resumed) ELSE resumed
              /\ Apply(PodExecuteCompleteDid(self, ev, kwargs))
    /\ UNCHANGED <<kind, attempts, clusters, operations, createOp, deleteOp, submission, syncPolls, poller>>

\* The blocking wait inside create_cluster / delete_cluster: the operation is
\* still running and the hook polls again, or the wait ends and execute goes on.
SyncPoll ==
    /\ pc = "waiting"
    /\ LET self == IF kind = "create" THEN createOp ELSE deleteOp
           timeout == SubmissionTimeout(self)
       IN  \/ /\ ~DeadlineReached(timeout, syncPolls)
              /\ syncPolls < MaxPolls
              /\ syncPolls' = syncPolls + 1
              /\ UNCHANGED <<pc, trace, returns, raised, deferrals, submission>>
           \/ \E out \in (IF DeadlineReached(timeout, syncPolls)
                           THEN {TimedOut(submission.op)}
                           ELSE WaitOutcomes(submission.op)) :
                 LET did == IF kind = "create"
                            THEN CreateExecuteDid(createOp, operations, out)
                            ELSE DeleteExecuteDid(deleteOp, operations, out)
                 IN  /\ submission' = Submitted(out)
                     /\ Apply([did EXCEPT !.trace = SubSeq(@, 3, Len(@))])
                     /\ UNCHANGED syncPolls
    /\ UNCHANGED <<kind, attempts, clusters, operations, createOp, deleteOp, podOp, event,
                   worker, poller>>

\* One poll of the trigger of a deferred create or delete.
TriggerPoll ==
    /\ Resumable
    /\ kind \in {"create", "delete"}
    /\ ~Stopped(poller)
    /\ poller.polls < MaxPolls
    /\ \E status \in PollStatuses :
          \E ev \in (IF Terminal(poller, status)
                      THEN {e \in TriggerEvents(deferrals[1]) : e.status = EventStatus(status)}
                      ELSE {NoEvent}) :
             poller' = Polled(poller, deferrals[1].trigger.poll_interval, status, ev)
    /\ UNCHANGED <<pc, kind, attempts, clusters, operations, createOp, deleteOp, podOp,
                   trace, returns, raised, deferrals, submission, event, worker, syncPolls>>

NewAttempt ==
    /\ pc \in {"done", "failed"}
    /\ attempts < MaxAttempts
    /\ attempts' = attempts + 1
    /\ pc' = "idle"
    /\ kind' = "none"
    /\ createOp' = NoCreateOp
    /\ deleteOp' = NoDeleteOp
    /\ podOp' = NoPodOp
    /\ trace' = <<>>
    /\ returns' = <<>>
    /\ raised' = <<>>
    /\ deferrals' = <<>>
    /\ submission' = NoSubmission
    /\ event' = NoEvent
    /\ worker' = "none"
    /\ syncPolls' = 0
    /\ poller' = NoPoller
    /\ UNCHANGED <<clusters, operations>>

Next ==
    \/ CreateInit
    \/ CreateExecute
    \/ CreateExecuteComplete
    \/ DeleteInit
    \/ DeleteExecute
    \/ DeleteExecuteComplete
    \/ PodInit
    \/ PodExecute
    \/ PodExecuteComplete
    \/ SyncPoll
    \/ NewAttempt

Spec == Init /\ [][Next]_vars

\* One task instance of a create or a delete, with the trigger of its deferral
\* followed poll by poll.
PollerNext ==
    \/ CreateInit
    \/ CreateExecute
    \/ CreateExecuteCompletePolled
    \/ DeleteInit
    \/ DeleteExecute
    \/ DeleteExecuteCompletePolled
    \/ SyncPoll
    \/ TriggerPoll

PollerSpec == Init /\ [][PollerNext]_vars

----------------------------------------------------------------------------
(* Properties *)

\* A body field is set when it holds a value that is not its type's empty value.
SetValues == ClusterNames \cup {"{machine_type}", "1", "[pool]"}
IsSet(body, field_name) == body[field_name] \in SetValues

Entries(what) == SelectSeq(trace, LAMBDA e : e.ev = what)
IsSubmit(e) == e.ev \in {"create_cluster", "delete_cluster"}
IsCall(e) ==
    e.ev \in {"create_cluster", "delete_cluster", "get_cluster", "get_operation",
              "wait_for_operation"}
Validated == Ev("validated", "", 0, FALSE)

\* A create body names the cluster and uses exactly one of the two alternatives.
WellFormed(body) ==
    /\ IsSet(body, "name")
    /\ \/ /\ IsSet(body, "node_pools")
          /\ ~IsSet(body, "node_config")
          /\ ~IsSet(body, "initial_node_count")
       \/ /\ ~IsSet(body, "node_pools")
          /\ IsSet(body, "node_config") \/ IsSet(body, "initial_node_count")

\* C1: a create request whose body sets both node_pools and initial_node_count, as
\* a dict or as a Cluster, fails with the input error, and at that moment no
\* control-plane call has been made and nothing has been deferred or returned.
C1_BothSetFailsBeforeAnyCall ==
    (kind = "create"
       /\ IsSet(createOp.body, "node_pools")
       /\ IsSet(createOp.body, "initial_node_count"))
    => /\ pc = "failed"
       /\ raised = <<InputError>>
       /\ \A i \in 1..Len(trace) : ~IsCall(trace[i])
       /\ deferrals = <<>>
       /\ returns = <<>>
       /\ submission = NoSubmission

C1_Witness ==
    /\ kind = "create"
    /\ createOp.body.type = "Cluster"
    /\ IsSet(createOp.body, "name")
    /\ IsSet(createOp.body, "node_pools")
    /\ IsSet(createOp.body, "initial_node_count")
    /\ ~IsSet(createOp.body, "node_config")
    /\ pc = "failed"

\* C2: when the create submission raises AlreadyExists, in either mode, execute
\* returns the link of the existing cluster, looked up by one get_cluster call on
\* the body's name; it raises nothing and registers no deferral.
C2_AlreadyExistsReturnsExistingLink ==
    (kind = "create" /\ submission.exc = "AlreadyExists")
    => /\ pc = "done"
       /\ raised = <<>>
       /\ deferrals = <<>>
       /\ createOp.body.name \in clusters
       /\ Entries("get_cluster") = <<Ev("get_cluster", createOp.body.name, 0, FALSE)>>
       /\ returns = <<ClusterLink(createOp.body.name)>>

C2_Witness ==
    /\ kind = "create"
    /\ submission.exc = "AlreadyExists"
    /\ createOp.deferrable
    /\ createOp.body.type = "dict"
    /\ pc = "done"

\* C3: for a completion event with status "failed" or "error", execute_complete of
\* the create and of the delete operator raises an exception whose message is the
\* event's message, without a get_operation call and without returning a link.
C3_FailedEventRaisesMessage ==
    (kind \in {"create", "delete"} /\ event.status \in {"failed", "error"})
    => /\ pc = "failed"
       /\ raised = <<Exc("AirflowException", event.message)>>
       /\ Entries("get_operation") = <<>>
       /\ returns = <<>>

C3_Witness ==
    /\ kind = "create"
    /\ event.status = "failed"
    /\ event.message = "quota exceeded"
    /\ pc = "failed"

\* C4: for a completion event with any other status, execute_complete makes one
\* get_operation lookup, keyed by the event's operation_name, and returns the link
\* of that record (target_link for create, self_link for delete); after the
\* deferral nothing else is called, so no operation is submitted on resume.
C4_ResumeLooksUpOnceAndReturnsLink ==
    (kind \in {"create", "delete"} /\ event # NoEvent
       /\ event.status \notin {"failed", "error"})
    => /\ pc = "done"
       /\ Len(Entries("defer")) = 1
       /\ LET n == Len(trace)
              record == Operation(operations, event.operation_name)
              link == IF kind = "create" THEN record.target_link ELSE record.self_link
          IN  /\ n >= 3
              /\ trace[n - 2].ev = "defer"
              /\ trace[n - 1] = Ev("get_operation", "", event.operation_name, FALSE)
              /\ trace[n] = Returned(link)
              /\ returns = <<link>>
       /\ Len(SelectSeq(trace, IsSubmit)) = 1
       /\ Len(operations) = submission.op

C4_Witness ==
    /\ kind = "delete"
    /\ event.status = "success"
    /\ pc = "done"
    /\ returns = <<OperationLink(event.operation_name)>>

\* C5: a deferrable create whose submission succeeds submits with
\* wait_to_complete false and then defers: the trace of execute is the
\* validation, the submission and the deferral, with no status call in between;
\* one deferral with method execute_complete is registered, and execute returns
\* nothing.
C5_DeferredCreateYieldsAfterSubmit ==
    (kind = "create" /\ createOp.deferrable /\ submission.called
       /\ submission.exc = "" /\ submission.op # 0)
    => /\ SubSeq(trace, 1, 3) =
            <<Validated,
              Ev("create_cluster", createOp.body.name, 0, FALSE),
              Deferred(submission.op)>>
       /\ Len(deferrals) = 1
       /\ deferrals[1].method_name = "execute_complete"
       /\ deferrals[1].trigger.cls = "GKEOperationTrigger"
       /\ ~submission.polled
       /\ (event = NoEvent => pc = "deferred" /\ returns = <<>>)

C5_Witness ==
    /\ kind = "create"
    /\ createOp.deferrable
    /\ submission.called
    /\ submission.op # 0
    /\ pc = "deferred"

\* C6: a delete whose submission returns an operation defers in deferrable mode
\* (submission without waiting, one deferral with method execute_complete, nothing
\* returned by execute) and in synchronous mode submits with wait_to_complete,
\* registers no deferral and returns the operation's self link; an AlreadyExists
\* raised by the control plane leaves execute uncaught.
C6_DeleteSubmitModeSplit ==
    /\ (kind = "delete" /\ submission.exc = "" /\ submission.op # 0 /\ deleteOp.deferrable)
       => /\ SubSeq(trace, 1, 3) =
               <<Validated,
                 Ev("delete_cluster", deleteOp.name, 0, FALSE),
                 Deferred(submission.op)>>
          /\ Len(deferrals) = 1
          /\ deferrals[1].method_name = "execute_complete"
          /\ deferrals[1].trigger.cls = "GKEOperationTrigger"
          /\ (event = NoEvent => pc = "deferred" /\ returns = <<>>)
    /\ (kind = "delete" /\ submission.exc = "" /\ submission.op # 0 /\ ~deleteOp.deferrable)
       => /\ trace =
               <<Validated,
                 Ev("delete_cluster", deleteOp.name, 0, TRUE),
                 Ev("wait_for_operation", "", submission.op, TRUE),
                 Returned(OperationLink(submission.op))>>
          /\ deferrals = <<>>
          /\ returns = <<OperationLink(submission.op)>>
          /\ pc = "done"
    /\ (kind = "delete" /\ submission.exc = "AlreadyExists")
       => /\ pc = "failed"
          /\ raised = <<Exc("AlreadyExists", "")>>
          /\ returns = <<>>
          /\ deferrals = <<>>

C6_Witness ==
    /\ kind = "delete"
    /\ submission.op # 0
    /\ submission.exc = ""
    /\ ~deleteOp.deferrable
    /\ pc = "done"

\* C7: one create or delete invocation reports a success link at most once: a
\* synchronous one from execute without deferring, a deferred one only from the
\* resume (nothing before the event is delivered, and only for a success event),
\* and the already-exists path once, without deferring.
C7_SuccessReportedAtMostOnce ==
    kind \in {"create", "delete"}
    => LET deferrable == IF kind = "create" THEN createOp.deferrable ELSE deleteOp.deferrable
       IN  /\ Len(returns) <= 1
           /\ Len(Entries("return")) = Len(returns)
           /\ Len(deferrals) <= 1
           /\ ~deferrable => deferrals = <<>>
           /\ (deferrals # <<>> /\ event = NoEvent) => returns = <<>>
           /\ (deferrals # <<>> /\ returns # <<>>) =>
                  /\ event.status = "success"
                  /\ trace[Len(trace) - 2].ev = "defer"
           /\ (kind = "create" /\ submission.exc = "AlreadyExists") =>
                  Len(returns) = 1 /\ deferrals = <<>>

C7_Witness ==
    /\ kind = "create"
    /\ deferrals # <<>>
    /\ event.status = "success"
    /\ Len(returns) = 1

\* C8: a create invocation follows Validating -> Submitted -> {Resolved |
\* Polling -> Terminal}: the submission is the step right after a passed
\* validation, of a well-formed body; a deferral, a wait or an operation lookup comes after a submission
\* that returned an operation, and is about that operation; the cluster lookup of
\* Resolved directly follows a submission that raised AlreadyExists; and a return
\* or a raise is the last step of the invocation.
C8_CreateStateMachine ==
    kind = "create"
    => \A i \in 1..Len(trace) :
          LET e == trace[i]
          IN  /\ IsSubmit(e) =>
                    /\ i = 2
                    /\ trace[1] = Validated
                    /\ WellFormed(createOp.body)
                    /\ e.ev = "create_cluster"
              /\ e.ev \in {"defer", "wait_for_operation", "get_operation"} =>
                    /\ i >= 3
                    /\ IsSubmit(trace[2])
                    /\ submission.op # 0
              /\ e.ev \in {"defer", "wait_for_operation"} =>
                    i = 3 /\ e.op = submission.op
              /\ e.ev = "get_operation" => trace[i - 1].ev = "defer"
              /\ e.ev = "get_cluster" =>
                    i = 3 /\ IsSubmit(trace[2]) /\ submission.exc = "AlreadyExists"
              /\ e.ev \in {"return", "raise"} =>
                    i = Len(trace) /\ pc \in {"done", "failed"}

C8_Witness ==
    /\ kind = "create"
    /\ Len(trace) = 5
    /\ trace[2].ev = "create_cluster"
    /\ trace[3].ev = "defer"
    /\ trace[4].ev = "get_operation"
    /\ trace[5].ev = "return"

\* C9: with the body's name set, validation accepts the body exactly when
\* node_pools is set and neither legacy field is, or node_pools is unset and at
\* least one of node_config and initial_node_count is set.
C9_ValidationAcceptsExactlyOneAlternative ==
    (kind = "create" /\ IsSet(createOp.body, "name"))
    => LET node_config == IsSet(createOp.body, "node_config")
           initial_node_count == IsSet(createOp.body, "initial_node_count")
           node_pools == IsSet(createOp.body, "node_pools")
       IN  (trace[1] = Validated)
           <=> \/ node_pools /\ ~node_config /\ ~initial_node_count
               \/ ~node_pools /\ (node_config \/ initial_node_count)

C9_Witness ==
    /\ kind = "create"
    /\ IsSet(createOp.body, "name")
    /\ IsSet(createOp.body, "node_pools")
    /\ ~IsSet(createOp.body, "node_config")
    /\ ~IsSet(createOp.body, "initial_node_count")
    /\ trace[1] = Validated
    /\ pc = "constructed"

\* C10: a pod execution that defers calls get_cluster once, in execute and before
\* the pod is created; the kwargs of the deferral are cluster_url and ssl_ca_cert
\* with the values derived from that call; and the resume takes the connection
\* data from the kwargs without another get_cluster call.
C10_PodResumeUsesKwargs ==
    (kind = "pod" /\ deferrals # <<>>)
    => LET kwargs == deferrals[1].kwargs
           cluster == GetCluster(podOp.cluster_name)
       IN  /\ Entries("get_cluster") = <<Ev("get_cluster", podOp.cluster_name, 0, FALSE)>>
           /\ trace[2].ev = "get_cluster"
           /\ trace[3].ev = "create_pod"
           /\ trace[4].ev = "defer"
           /\ DOMAIN kwargs = {"cluster_url", "ssl_ca_cert"}
           /\ kwargs.cluster_url =
                  HttpsUrl(IF podOp.use_internal_ip
                           THEN cluster.private_endpoint ELSE cluster.endpoint)
           /\ kwargs.ssl_ca_cert = cluster.cluster_ca_certificate
           /\ deferrals[1].method_name = "execute_complete"
           /\ event # NoEvent =>
                  /\ podOp._cluster_url = kwargs.cluster_url
                  /\ podOp._ssl_ca_cert = kwargs.ssl_ca_cert
                  /\ podOp.hook =
                         [built |-> TRUE, cluster_url |-> kwargs.cluster_url,
                          ssl_ca_cert |-> kwargs.ssl_ca_cert]
                  /\ trace[5].ev = "read_pod"
                  /\ trace[5].name = kwargs.cluster_url

C10_Witness ==
    /\ kind = "pod"
    /\ deferrals # <<>>
    /\ event.status = "success"
    /\ podOp.use_internal_ip
    /\ pc = "done"

\* C11: execute_complete reads nothing that execute left in memory: run on a newly
\* constructed instance it makes the same lookups, returns the same link or raises
\* the same error, and (pod operator) ends with the same connection data and pod
\* hook, as run on the instance that deferred.
C11_ResumeIndependentOfInstance ==
    [][(pc = "deferred" /\ pc' # "deferred")
       => LET kwargs == deferrals[1].kwargs
              did == CASE kind = "create" ->
                            CreateExecuteCompleteDid(createOp, operations, event')
                       [] kind = "delete" ->
                            DeleteExecuteCompleteDid(deleteOp, operations, event')
                       [] kind = "pod" ->
                            PodExecuteCompleteDid(podOp, event', kwargs)
          IN  /\ trace' = trace \o did.trace
              /\ returns' = returns \o did.returns
              /\ raised' = raised \o did.raised
              /\ kind = "pod" =>
                    LET resumed == UseHook(PodExecuteCompleteSelf(podOp, kwargs))
                    IN  /\ podOp'._cluster_url = resumed._cluster_url
                        /\ podOp'._ssl_ca_cert = resumed._ssl_ca_cert
                        /\ podOp'.hook = resumed.hook]_vars

C11_Witness ==
    /\ worker = "other"
    /\ kind = "create"
    /\ event.status = "success"
    /\ pc = "done"
    /\ returns # <<>>

\* C12: the trigger registered when create or delete defers names the operation
\* that this invocation's submission returned and carries the operator's project
\* id, location, connection id, impersonation chain and poll interval; it has no
\* other field, so neither the hook nor a credential is part of it.
C12_PollSessionIsPlainData ==
    (kind \in {"create", "delete"} /\ deferrals # <<>>)
    => LET t == deferrals[1].trigger
           self == IF kind = "create"
                   THEN [project_id |-> createOp.project_id,
                         location |-> createOp.location,
                         gcp_conn_id |-> createOp.gcp_conn_id,
                         impersonation_chain |-> createOp.impersonation_chain,
                         poll_interval |-> createOp.poll_interval]
                   ELSE [project_id |-> deleteOp.project_id,
                         location |-> deleteOp.location,
                         gcp_conn_id |-> deleteOp.gcp_conn_id,
                         impersonation_chain |-> deleteOp.impersonation_chain,
                         poll_interval |-> deleteOp.poll_interval]
       IN  /\ DOMAIN t = {"cls", "operation_name", "project_id", "location",
                          "gcp_conn_id", "impersonation_chain", "poll_interval"}
           /\ t.cls = "GKEOperationTrigger"
           /\ submission.op # 0
           /\ t.operation_name = submission.op
           /\ operations[t.operation_name].kind = kind
           /\ t.project_id = self.project_id
           /\ t.location = self.location
           /\ t.gcp_conn_id = self.gcp_conn_id
           /\ t.impersonation_chain = self.impersonation_chain
           /\ t.poll_interval = self.poll_interval

C12_Witness ==
    /\ kind = "delete"
    /\ pc = "deferred"
    /\ deferrals # <<>>
    /\ deleteOp.poll_interval = 5
    /\ attempts = 2
    /\ submission.op = 2

\* C13: once fetch_cluster_info has run, the cluster url is "https://" followed by
\* the private endpoint when use_internal_ip is set (and not the url of the public
\* endpoint), and by the public endpoint otherwise; the certificate is the
\* cluster's master-auth certificate; and the pair it returns is the stored one.
C13_InternalIpUsesPrivateEndpoint ==
    (kind = "pod" /\ Len(trace) >= 3 /\ trace[2].ev = "get_cluster"
       /\ trace[3].ev # "raise")
    => LET cluster == GetCluster(podOp.cluster_name)
           fetched == fetch_cluster_info(
                          [podOp EXCEPT !._cluster_url = PyNone, !._ssl_ca_cert = PyNone],
                          cluster)
       IN  /\ podOp.use_internal_ip =>
                 /\ podOp._cluster_url = HttpsUrl(cluster.private_endpoint)
                 /\ podOp._cluster_url # HttpsUrl(cluster.endpoint)
           /\ ~podOp.use_internal_ip =>
                 podOp._cluster_url = HttpsUrl(cluster.endpoint)
           /\ podOp._ssl_ca_cert = cluster.cluster_ca_certificate
           /\ fetch_cluster_info_return(fetched) = <<podOp._cluster_url, podOp._ssl_ca_cert>>
           /\ trace[3].name = podOp._cluster_url

C13_Witness ==
    /\ kind = "pod"
    /\ podOp.use_internal_ip
    /\ podOp.cluster_name = "c1"
    /\ podOp._cluster_url = "https://10.0.0.1"
    /\ podOp._ssl_ca_cert = "CA-c1"
    /\ event = NoEvent
    /\ pc = "done"

ConfigFileError ==
    Exc("AirflowException",
        "config_file is not an allowed parameter for the GKEStartPodOperator.")

\* C14 as stated: whenever a config_file path is supplied construction fails with
\* the config_file error, and without config_file it never fails with that error.
C14_ConfigFileAlwaysConfigError ==
    (kind = "pod" /\ pc # "idle")
    => /\ Truthy(podOp.config_file) =>
             /\ pc = "failed"
             /\ raised = <<ConfigFileError>>
             /\ trace = <<Raise>>
       /\ ~Truthy(podOp.config_file) => ConfigFileError \notin {raised[i] : i \in DOMAIN raised}

\* C14, amended: a non-empty config_file makes construction fail before any
\* remote call; the error is the config_file error exactly when the earlier
\* checks of __init__ pass (on_finish_action valid, gcp_conn_id given), else the
\* error of the earlier check; a missing or empty config_file never gives the
\* config_file error.
C14_ConfigFileFailsConstruction ==
    (kind = "pod" /\ pc # "idle")
    => /\ Truthy(podOp.config_file) =>
             /\ pc = "failed"
             /\ trace = <<Raise>>
             /\ returns = <<>> /\ deferrals = <<>>
             /\ Len(raised) = 1
             /\ raised[1] = (IF podOp.on_finish_action = "ValueError"
                               THEN Exc("ValueError", "")
                             ELSE IF podOp.gcp_conn_id = PyNone
                               THEN Exc("AirflowException",
                                        "The gcp_conn_id parameter has become required.")
                             ELSE ConfigFileError)
       /\ ~Truthy(podOp.config_file) =>
             ConfigFileError \notin {raised[i] : i \in DOMAIN raised}

C14_Witness ==
    /\ kind = "pod"
    /\ podOp.config_file = "/home/airflow/.kube/config"
    /\ podOp.gcp_conn_id = DefaultConnId
    /\ pc = "failed"
    /\ raised = <<ConfigFileError>>
    /\ trace = <<Raise>>

\* C15 as stated: construction resolves is_delete_operator_pod / on_finish_action
\* into the one on_finish_action (True -> delete_pod, False -> keep_pod, else the
\* supplied on_finish_action, keep_pod when neither is supplied), and rejects
\* the construction when both are supplied.
C15_AliasesResolvedAmbiguousRejected ==
    (kind = "pod" /\ pc # "idle")
    => LET given == podOp.init_args
       IN  /\ (given.is_delete_operator_pod # PyNone /\ given.on_finish_action # PyNone)
                 => (pc = "failed" /\ raised # <<>> /\ trace = <<Raise>>)
           /\ (given.is_delete_operator_pod = "True" /\ given.on_finish_action = PyNone)
                 => podOp.on_finish_action = "delete_pod"
           /\ (given.is_delete_operator_pod = "False" /\ given.on_finish_action = PyNone)
                 => podOp.on_finish_action = "keep_pod"
           /\ (given.is_delete_operator_pod = PyNone /\ given.on_finish_action \in OnFinishActions)
                 => podOp.on_finish_action = given.on_finish_action
           /\ (given.is_delete_operator_pod = PyNone /\ given.on_finish_action = PyNone)
                 => podOp.on_finish_action = "keep_pod"

\* The value an unset field of a Cluster proto holds.
ProtoDefault(field_name) ==
    CASE field_name = "name" -> ""
      [] field_name = "node_config" -> "{}"
      [] field_name = "initial_node_count" -> "0"
      [] field_name = "node_pools" -> "[]"

\* Cluster(**body): the typed body holding the field values of a dict body.
AsCluster(body) ==
    [type |-> "Cluster",
     name |-> IF body.name \in {Absent, PyNone} THEN ProtoDefault("name") ELSE body.name,
     node_config |-> IF body.node_config \in {Absent, PyNone}
                       THEN ProtoDefault("node_config") ELSE body.node_config,
     initial_node_count |-> IF body.initial_node_count \in {Absent, PyNone}
                              THEN ProtoDefault("initial_node_count")
                              ELSE body.initial_node_count,
     node_pools |-> IF body.node_pools \in {Absent, PyNone}
                      THEN ProtoDefault("node_pools") ELSE body.node_pools]

\* The bodies of the other representation that hold the same field values.
Twins(body) ==
    IF body.type = "dict"
    THEN {AsCluster(body)}
    ELSE {d \in DictBodies : AsCluster(d) = body}

\* C18: a dict body and a Cluster body with the same field values are both
\* accepted or both rejected by the validation of the create request, and, if
\* accepted, the same cluster name is submitted and looked up for both.
C18_DictAndClusterBodiesAgree ==
    (kind = "create" /\ pc # "idle")
    => \A twin \in Twins(createOp.body) :
          /\ (trace[1] = Validated) <=> (_validate_input(twin) = <<>>)
          /\ (raised = <<InputError>> /\ trace = <<Raise>>) <=> (_validate_input(twin) # <<>>)
          /\ \A i \in 1..Len(trace) :
                /\ trace[i].ev = "create_cluster" => trace[i].name = SubmittedName(twin)
                /\ trace[i].ev = "get_cluster" => trace[i].name = AlreadyExistsName(twin)

C18_Witness ==
    /\ kind = "create"
    /\ createOp.body = [type |-> "dict", name |-> "c1", node_config |-> Absent,
                        initial_node_count |-> PyNone, node_pools |-> "[pool]"]
    /\ Len(trace) >= 3
    /\ trace[3].ev = "get_cluster"
    /\ trace[3].name = "c1"
    /\ pc = "done"

\* C19: when delete_cluster answers with no operation (the cluster is already
\* absent), execute returns None in either mode: nothing is deferred, nothing is
\* raised, and the submission is the only control-plane call.
C19_DeleteWithoutOperationReturnsNone ==
    (kind = "delete" /\ submission.called /\ submission.exc = "" /\ submission.op = 0)
    => /\ pc = "done"
       /\ returns = <<NoneLink>>
       /\ raised = <<>>
       /\ deferrals = <<>>
       /\ event = NoEvent
       /\ trace = <<Validated,
                    Ev("delete_cluster", deleteOp.name, 0, ~deleteOp.deferrable),
                    Returned(NoneLink)>>

C19_Witness ==
    /\ kind = "delete"
    /\ deleteOp.deferrable
    /\ deleteOp.name = "c2"
    /\ "c2" \notin clusters
    /\ submission = [called |-> TRUE, exc |-> "", op |-> 0, polled |-> FALSE]
    /\ returns = <<NoneLink>>
    /\ pc = "done"

\* C20: a delete operator is constructed only if project_id, name and location
\* are all non-empty; otherwise construction fails with the input error and
\* nothing else happens, so every submitted delete names a project, a cluster
\* and a location.
C20_DeleteNeedsProjectNameLocation ==
    (kind = "delete" /\ pc # "idle")
    => LET complete == /\ deleteOp.project_id \in ProjectIds
                       /\ deleteOp.name \in ClusterNames
                       /\ deleteOp.location \in Locations
       IN  /\ complete <=> trace[1] = Validated
           /\ ~complete =>
                 /\ pc = "failed"
                 /\ raised = <<InputError>>
                 /\ trace = <<Raise>>
                 /\ submission = NoSubmission
           /\ \A i \in 1..Len(trace) :
                 IsCall(trace[i]) => (complete /\ (IsSubmit(trace[i]) => trace[i].name \in ClusterNames))

C20_Witness ==
    /\ kind = "delete"
    /\ deleteOp.project_id = PyNone
    /\ deleteOp.name = "c1"
    /\ deleteOp.location = "europe-west1"
    /\ pc = "failed"
    /\ raised = <<InputError>>

\* C16: a blocking wait of a create or a delete has a deadline, the timeout that
\* the caller supplied, and has not polled past it: at the deadline the call ends
\* with the timeout error.
C16_SyncWaitBoundedByTimeout ==
    pc = "waiting"
    => LET timeout == SubmissionTimeout(IF kind = "create" THEN createOp ELSE deleteOp)
       IN  /\ timeout # PyNone
           /\ syncPolls <= timeout

\* C17: the trigger of a deferral emits at most one event, and none before a
\* terminal status: its n-th poll is made n - 1 intervals after the first, the
\* poll that sees the first terminal status (the operation done or failed, or a
\* failed lookup with the retries used up) emits the event of that status and is
\* the last one; and execute_complete runs at most once, with that event.
C17_PollerEmitsOneEventAfterNPolls ==
    /\ [](/\ Len(poller.emitted) <= 1
          /\ poller.resumes <= 1
          /\ poller.polls > 0 =>
                /\ Len(deferrals) = 1
                /\ poller.clock = deferrals[1].trigger.poll_interval
                                     * (poller.polls - Len(poller.emitted))
                /\ poller.last \in {"DONE", "ABORTING"} => poller.emitted # <<>>
                /\ poller.last = "RUNNING" => poller.emitted = <<>>
          /\ poller.emitted # <<>> =>
                /\ poller.polls > 0
                /\ poller.emitted[1].status = EventStatus(poller.last)
                /\ poller.emitted[1] \in TriggerEvents(deferrals[1])
                /\ poller.last = "UNAVAILABLE" => poller.retries = MaxRetries
          /\ poller.resumes = 0 => event = NoEvent
          /\ poller.resumes = 1 =>
                /\ event = poller.emitted[1]
                /\ pc \in {"done", "failed"})
    /\ [][poller'.polls # poller.polls =>
             LET status == poller'.last
                 terminal == \/ status \in {"DONE", "ABORTING"}
                             \/ status = "UNAVAILABLE" /\ poller.retries = MaxRetries
             IN  /\ poller.emitted = <<>>
                 /\ poller'.polls = poller.polls + 1
                 /\ terminal => (Len(poller'.emitted) = 1 /\ poller'.clock = poller.clock)
                 /\ ~terminal => (poller'.emitted = <<>>
                                  /\ poller'.clock = poller.clock
                                                     + deferrals[1].trigger.poll_interval)]_vars

C17_Witness ==
    /\ kind = "create"
    /\ createOp.poll_interval = 5
    /\ poller.polls = 3
    /\ poller.retries = 0
    /\ poller.last = "DONE"
    /\ poller.clock = 10
    /\ Len(poller.emitted) = 1
    /\ poller.resumes = 1
    /\ event.status = "success"
    /\ pc = "done"

\* C21: the pod operator holds a GKEPodHook only if _cluster_url and _ssl_ca_cert
\* are both defined, and the hook carries exactly these two values; they are
\* defined exactly once fetch_cluster_info has succeeded (execute_complete
\* restores them from the resume kwargs); while one of them is None no hook
\* exists and a use of self.hook raises AttributeError instead of building one.
C21_PodHookOnlyFromDefinedInfo ==
    kind = "pod"
    => LET defined == podOp._cluster_url # PyNone /\ podOp._ssl_ca_cert # PyNone
           fetched == /\ Len(trace) >= 3
                      /\ trace[2].ev = "get_cluster"
                      /\ trace[3] # Raise
           use == KubernetesPodOperatorExecute(podOp, TRUE)
       IN  /\ defined <=> fetched
           /\ podOp.hook.built =>
                 /\ defined
                 /\ podOp.hook.cluster_url = podOp._cluster_url
                 /\ podOp.hook.ssl_ca_cert = podOp._ssl_ca_cert
           /\ ~defined =>
                 /\ podOp.hook = NoPodHook
                 /\ use.raised = <<Exc("AttributeError", "")>>
                 /\ use.trace = <<Raise>>
           /\ defined =>
                 /\ UseHook(podOp).hook = [built |-> TRUE,
                                           cluster_url |-> podOp._cluster_url,
                                           ssl_ca_cert |-> podOp._ssl_ca_cert]
                 /\ use.trace[1] = Ev("create_pod", podOp._cluster_url, 0, FALSE)
           /\ (event # NoEvent /\ deferrals # <<>>) =>
                 /\ podOp.hook.built
                 /\ podOp.hook.cluster_url = deferrals[1].kwargs.cluster_url
                 /\ podOp.hook.ssl_ca_cert = deferrals[1].kwargs.ssl_ca_cert

C21_Witness ==
    /\ kind = "pod"
    /\ worker = "other"
    /\ podOp.use_internal_ip
    /\ podOp.hook = [built |-> TRUE, cluster_url |-> "https://10.0.0.1",
                     ssl_ca_cert |-> "CA-c1"]
    /\ event.status = "success"
    /\ pc = "done"

====
